---------------------------- MODULE Spec2Model ----------------------------
(***************************************************************************)
(* A model of the purge library: the CDN-agnostic client (createPurge:     *)
(* purgeCache, getCacheHeaders, buildCommonHeaders) and the ambient tag     *)
(* context built on AsyncLocalStorage (cacheTags, createPurgeContext,      *)
(* getCurrentPurgeContext), as used by the astro middleware.               *)
(*                                                                         *)
(* JavaScript values are tagged records, objects are functions from their  *)
(* own keys to values, and strings are TLA+ strings, so that truthiness,   *)
(* object spread, template literals and Array.join are computed as the     *)
(* code computes them.  A number is kept by its decimal digits because the *)
(* default maxAgeCDN (3153536000) exceeds the integers TLC evaluates.       *)
(***************************************************************************)
EXTENDS Integers, Sequences, FiniteSets, TLC

VARIABLES
    config,         \* the PurgeClientConfig given to createPurge (without provider)
    provider,       \* which PurgeProvider config.provider is
    request,        \* the call the application makes on the client
    providerCalls,  \* the calls the client's last operation made on the provider
    stores,         \* the { tags: Set } objects createPurgeContext allocated
    frame,          \* what purgeContext.getStore() returns now (0: undefined)
    running,        \* the async chain executing now (0: the event loop is idle)
    chains,         \* the async chains: status, captured store, run() stack
    scopes,         \* history: each scope's enclosing scope and the tags its
                    \* unit of work registered
    finalized,      \* history: the scopes whose unit of work has completed
    ret             \* the outcome of the last operation

vars == <<config, provider, request, providerCalls, stores, frame, running, chains,
          scopes, finalized, ret>>

clientVars == <<config, provider, request, providerCalls>>
contextVars == <<stores, frame, running, chains, scopes, finalized>>

-----------------------------------------------------------------------------
(* JavaScript values *)

Undef == [t |-> "undefined"]
Num(neg, digits) == [t |-> "number", neg |-> neg, digits |-> digits]
Str(s) == [t |-> "string", s |-> s]
Bool(b) == [t |-> "boolean", b |-> b]
Arr(a) == [t |-> "array", a |-> a]

Zero == Num(FALSE, "0")

\* ToBoolean: undefined, 0, "" and false are falsy; every array is truthy.
Truthy(v) ==
    CASE v.t = "undefined" -> FALSE
      [] v.t = "number" -> v.digits # "0"
      [] v.t = "string" -> v.s # ""
      [] v.t = "boolean" -> v.b
      [] v.t = "array" -> TRUE

\* a && b, a || b, !a
And(a, b) == IF Truthy(a) THEN b ELSE a
Or(a, b) == IF Truthy(a) THEN a ELSE b
Not(a) == Bool(~Truthy(a))

\* ToString of a primitive, as a template literal or Array.join applies it.
ToStr(v) ==
    CASE v.t = "undefined" -> "undefined"
      [] v.t = "number" -> (IF v.neg THEN "-" ELSE "") \o v.digits
      [] v.t = "string" -> v.s
      [] v.t = "boolean" -> (IF v.b THEN "true" ELSE "false")

RECURSIVE JoinFrom(_, _, _)
JoinFrom(a, sep, i) ==
    IF i > Len(a) THEN ""
    ELSE IF i = Len(a) THEN ToStr(a[i])
    ELSE ToStr(a[i]) \o sep \o JoinFrom(a, sep, i + 1)

\* Array.prototype.join
Join(a, sep) == JoinFrom(a, sep, 1)

\* obj.key: a key the object does not own reads as undefined.
Get(obj, k) == IF k \in DOMAIN obj THEN obj[k] ELSE Undef

\* { ...a, ...b }: every own key of b, defined or not, overrides a's.
Spread(a, b) ==
    [k \in (DOMAIN a) \cup (DOMAIN b) |-> IF k \in DOMAIN b THEN b[k] ELSE a[k]]

EmptyObj == [k \in {} |-> Undef]

-----------------------------------------------------------------------------
(* core: buildCommonHeaders *)

defaultConfig ==
    [maxAgeCDN |-> Num(FALSE, "3153536000"),
     maxAgeBrowser |-> Zero,
     vary |-> Str("Accept-Encoding"),
     private |-> Bool(FALSE)]

\* (params.maxAgeCDN && !params.private) && `s-maxage=${params.maxAgeCDN || 0}`
SMaxAgeDirective(params) ==
    And(And(Get(params, "maxAgeCDN"), Not(Get(params, "private"))),
        Str("s-maxage=" \o ToStr(Or(Get(params, "maxAgeCDN"), Zero))))

\* params.maxAgeBrowser && `max-age=${params.maxAgeBrowser || 0}`
MaxAgeDirective(params) ==
    And(Get(params, "maxAgeBrowser"),
        Str("max-age=" \o ToStr(Or(Get(params, "maxAgeBrowser"), Zero))))

\* [ ... ].filter(Boolean).join(", ")
CacheControl(params) ==
    Join(SelectSeq(<<SMaxAgeDirective(params),
                     MaxAgeDirective(params),
                     Str("must-revalidate"),
                     IF Truthy(Get(params, "private"))
                         THEN Str("private") ELSE Str("public")>>,
                   Truthy),
         ", ")

\* Array.isArray(params.vary) ? params.vary : [params.vary]
VaryHeaders(params) ==
    IF Get(params, "vary").t = "array"
        THEN Get(params, "vary").a
        ELSE <<Get(params, "vary")>>

buildCommonHeaders(params) ==
    IF Truthy(Get(params, "vary"))
        THEN [k \in {"Cache-Control", "Vary"} |->
                 IF k = "Cache-Control" THEN CacheControl(params)
                 ELSE Join(VaryHeaders(params), ", ")]
        ELSE [k \in {"Cache-Control"} |-> CacheControl(params)]

-----------------------------------------------------------------------------
(* core: the PurgeProvider capability and the providers bound to a client *)

Ok == [kind |-> "ok"]
Err(tag) == [kind |-> "err", error |-> [_tag |-> tag, name |-> tag]]

\* "mock": the spy provider of the core tests; "cloudflare": the Cloudflare
\* provider; "custom": another implementation of the PurgeProvider type, one
\* that sets a header the client also synthesizes.
Providers == {"mock", "cloudflare", "custom"}

ProviderGetCacheHeaders(p, args) ==
    CASE p = "mock" ->
            [k \in {"X-Provider-Header"} |-> "provider-value"]
      [] p = "cloudflare" ->
            [k \in {"Cache-Tag"} |-> Join(Get(args, "tags").a, ", ")]
      [] p = "custom" ->
            [k \in {"X-Tag", "Vary"} |->
                IF k = "X-Tag" THEN Join(Get(args, "tags").a, ", ") ELSE "Cookie"]

\* The outcomes the provider's purgeCache can resolve to: the mock always
\* succeeds, a real provider succeeds or wraps the failure of its API call.
ProviderPurgeCacheOutcomes(p, args) ==
    IF p = "mock" THEN {Ok} ELSE {Ok, Err("PurgeProviderError")}

-----------------------------------------------------------------------------
(* core: createPurge *)

\* const { tags, ...params } = arg
Rest(obj, k) == [j \in (DOMAIN obj) \ {k} |-> obj[j]]

\* the argument handed to config.provider.getCacheHeaders: { tags }
ProviderHeaderArgs(params) == [k \in {"tags"} |-> Get(params, "tags")]

\* The spread with config and params exchanged: the config overrides the call.
ResolvedParams_configWins(cfg, params) ==
    Spread(Spread(defaultConfig, Rest(params, "tags")), cfg)

\* { ...defaultConfig, ...config, ...params }
ResolvedParams(cfg, params) ==
    Spread(Spread(defaultConfig, cfg), Rest(params, "tags"))

\* The spread with its operands exchanged: the common headers override.
MergeHeaders_commonWins(common, providerHeaders) == Spread(providerHeaders, common)

\* { ...buildCommonHeaders(...), ...providerHeaders }
MergeHeaders(common, providerHeaders) == Spread(common, providerHeaders)

Call(op, args) == [op |-> op, args |-> args]

Ret(op, args, kind, value) ==
    [op |-> op, args |-> args, kind |-> kind, value |-> value]

NoRet == Ret("none", EmptyObj, "none", EmptyObj)

\* client.purgeCache(params): return config.provider.purgeCache(params)
PurgeCache(params) ==
    /\ \E outcome \in ProviderPurgeCacheOutcomes(provider, params) :
           ret' = Ret("purgeCache", params, outcome.kind, outcome)
    /\ providerCalls' = <<Call("purgeCache", params)>>
    /\ UNCHANGED <<config, provider, request, contextVars>>

\* client.getCacheHeaders({ tags, ...params })
GetCacheHeaders(params) ==
    /\ providerCalls' = <<Call("getCacheHeaders", ProviderHeaderArgs(params))>>
    /\ ret' = Ret("getCacheHeaders", params, "return",
                  MergeHeaders(
                      buildCommonHeaders(ResolvedParams(config, params)),
                      ProviderGetCacheHeaders(provider, ProviderHeaderArgs(params))))
    /\ UNCHANGED <<config, provider, request, contextVars>>

-----------------------------------------------------------------------------
(* The inputs the client is exercised with *)

Absent == [t |-> "absent"]

MkObj(c, b, v, p) ==
    LET all == [maxAgeCDN |-> c, maxAgeBrowser |-> b, vary |-> v, private |-> p]
    IN  [k \in {j \in DOMAIN all : all[j] # Absent} |-> all[k]]

ConfigMaxAgeCDN == {Absent, Num(FALSE, "86400")}
ConfigMaxAgeBrowser == {Absent, Num(FALSE, "3600")}
ConfigVary == {Absent, Undef, Arr(<<Str("Accept-Language"), Str("User-Agent")>>)}
ConfigPrivate == {Absent, Bool(FALSE), Bool(TRUE)}

Configs ==
    {MkObj(c, b, v, p) : c \in ConfigMaxAgeCDN, b \in ConfigMaxAgeBrowser,
                         v \in ConfigVary, p \in ConfigPrivate}

CallMaxAgeCDN == {Absent, Undef, Zero, Num(FALSE, "7200"), Num(TRUE, "1")}
CallMaxAgeBrowser == {Absent, Zero, Num(FALSE, "1800"), Num(TRUE, "1")}
CallVary == {Absent, Undef, Str(""), Str("Accept-Language"), Arr(<<>>),
             Arr(<<Str("A"), Str("B")>>)}
CallPrivate == {Absent, Bool(FALSE), Bool(TRUE)}

TagLists == {<<>>, <<Str("tag1"), Str("tag2")>>}

WithTags(obj, tags) == Spread(obj, [k \in {"tags"} |-> Arr(tags)])

HeaderParams ==
    {WithTags(MkObj(c, b, v, p), tags) :
        c \in CallMaxAgeCDN, b \in CallMaxAgeBrowser, v \in CallVary,
        p \in CallPrivate, tags \in TagLists}

PurgeParams == {WithTags(EmptyObj, tags) : tags \in TagLists}

Requests ==
    {Call("purgeCache", params) : params \in PurgeParams}
        \cup {Call("getCacheHeaders", params) : params \in HeaderParams}

NoRequest == Call("none", EmptyObj)

-----------------------------------------------------------------------------
(* The client: a configuration fixed at createPurge, then any calls *)

InitContext ==
    /\ stores = <<>>
    /\ frame = 0
    /\ running = 0
    /\ chains = <<>>
    /\ scopes = <<>>
    /\ finalized = {}

InitClient ==
    /\ config \in Configs
    /\ provider \in Providers
    /\ request \in Requests
    /\ providerCalls = <<>>
    /\ ret = NoRet
    /\ InitContext

NextClient ==
    \/ request.op = "purgeCache" /\ PurgeCache(request.args)
    \/ request.op = "getCacheHeaders" /\ GetCacheHeaders(request.args)

SpecClient == InitClient /\ [][NextClient]_vars

-----------------------------------------------------------------------------
(* core/context: the ambient tag context.                                  *)
(*                                                                         *)
(* purgeContext is an AsyncLocalStorage.  JavaScript runs one async chain  *)
(* at a time; frame is the store of the execution context that is running. *)
(* run(store, callback) sets frame to store for the synchronous extent of  *)
(* callback and restores the prior frame when callback returns or throws.  *)
(* A chain that suspends at an await captures frame; the event loop clears *)
(* frame between chains and reinstates the captured one on resumption.     *)
(* An async callback that awaits inside run() returns its promise to run,  *)
(* so its continuation becomes a chain of its own that carries the store.  *)

MaxChains == 3
MaxStores == 2
Tags == {"a", "b"}

Chain(status, saved, prev, owner) ==
    [status |-> status,  \* "running", "suspended" or "done"
     saved |-> saved,    \* the frame captured at the await it is suspended on
     prev |-> prev,      \* the frames the run() calls in progress will restore
     owner |-> owner]    \* history: the scopes whose unit of work it executes

Scope(parent, registered) == [parent |-> parent, registered |-> registered]

\* purgeContext.getStore() with a module-level variable in place of the
\* AsyncLocalStorage: the store created last.
getStore_moduleLevel == Len(stores)

\* purgeContext.getStore()
getStore == frame

\* The unit of work code runs in: the innermost scope of the running chain
\* (0: outside every scope).
Owner == IF chains[running].owner = <<>> THEN 0 ELSE Head(chains[running].owner)

\* const store = { tags: new Set<string>() }
NewStoreTags == {}

\* cacheTags without its `if (store)` test: store.tags of undefined throws.
CacheTagsOutcome_unguarded(store) == IF store = 0 THEN "throw" ELSE "return"

CacheTagsOutcome(store) == "return"

\* if (store) { tags.forEach(tag => store.tags.add(tag)) }
StoresAfterCacheTags(store, tags) ==
    IF store # 0 THEN [stores EXCEPT ![store] = @ \cup tags] ELSE stores

\* The frame once purgeContext.run(store, callback) is left: enterWith in
\* place of run restores nothing,
FrameAfterRun_enterWith(outcome, prior) == frame

\* and a restore that is not in a finally is skipped by a throw.
FrameAfterRun_noFinally(outcome, prior) == IF outcome = "throw" THEN frame ELSE prior

FrameAfterRun(outcome, prior) == prior

SetChain(t, c) == [chains EXCEPT ![t] = c]

\* The event loop starts a chain outside every scope: a request arrives, a
\* timer or webhook fires.
Spawn ==
    /\ running = 0
    /\ Len(chains) < MaxChains
    /\ chains' = Append(chains, Chain("running", 0, <<>>, <<>>))
    /\ running' = Len(chains) + 1
    /\ frame' = 0
    /\ ret' = Ret("spawn", EmptyObj, "return", EmptyObj)
    /\ UNCHANGED <<clientVars, stores, scopes, finalized>>

\* createPurgeContext(callback), up to the start of callback
CreatePurgeContext ==
    /\ running # 0
    /\ Len(stores) < MaxStores
    /\ stores' = Append(stores, NewStoreTags)
    /\ scopes' = Append(scopes, Scope(Owner, {}))
    /\ frame' = Len(stores) + 1
    /\ chains' = SetChain(running,
                    [chains[running] EXCEPT
                        !.prev = <<frame>> \o @,
                        !.owner = <<Len(stores) + 1>> \o @])
    /\ ret' = Ret("createPurgeContext", EmptyObj, "enter", Len(stores) + 1)
    /\ UNCHANGED <<clientVars, running, finalized>>

\* callback returns or throws synchronously, and run() with it
CallbackReturn(outcome) ==
    /\ running # 0
    /\ chains[running].prev # <<>>
    /\ frame' = FrameAfterRun(outcome, Head(chains[running].prev))
    /\ chains' = SetChain(running,
                    [chains[running] EXCEPT !.prev = Tail(@), !.owner = Tail(@)])
    /\ finalized' = finalized \cup {Owner}
    /\ ret' = Ret("callback", EmptyObj, outcome, Owner)
    /\ UNCHANGED <<clientVars, stores, scopes, running>>

\* callback is async and reaches an await: run() returns its promise, the
\* rest of callback is a chain suspended with the frame it captured
CallbackSuspend ==
    /\ running # 0
    /\ chains[running].prev # <<>>
    /\ Len(chains) < MaxChains
    /\ frame' = FrameAfterRun("return", Head(chains[running].prev))
    /\ chains' = Append(
                    SetChain(running,
                        [chains[running] EXCEPT !.prev = Tail(@), !.owner = Tail(@)]),
                    Chain("suspended", frame, <<>>, <<Owner>>))
    /\ ret' = Ret("callback", EmptyObj, "await", Owner)
    /\ UNCHANGED <<clientVars, stores, scopes, running, finalized>>

\* cacheTags(...tags)
CacheTags(tags) ==
    /\ running # 0
    /\ stores' = StoresAfterCacheTags(getStore, tags)
    /\ scopes' = IF Owner # 0
                    THEN [scopes EXCEPT ![Owner].registered = @ \cup tags]
                    ELSE scopes
    /\ ret' = Ret("cacheTags", tags, CacheTagsOutcome(getStore), EmptyObj)
    /\ UNCHANGED <<clientVars, frame, running, chains, finalized>>

\* throw new Error("No purge context found. ...")
NoContextError == [name |-> "Error"]

\* getCurrentPurgeContext()
GetCurrentPurgeContext ==
    /\ running # 0
    /\ ret' = IF getStore = 0
                THEN Ret("getCurrentPurgeContext", EmptyObj, "throw",
                         NoContextError)
                ELSE Ret("getCurrentPurgeContext", EmptyObj, "return",
                         [store |-> getStore, tags |-> stores[getStore]])
    /\ UNCHANGED <<clientVars, contextVars>>

\* the running chain, in no run() call, suspends at an await
Await ==
    /\ running # 0
    /\ chains[running].prev = <<>>
    /\ chains' = SetChain(running,
                    [chains[running] EXCEPT !.status = "suspended", !.saved = frame])
    /\ running' = 0
    /\ frame' = 0
    /\ ret' = Ret("await", EmptyObj, "await", EmptyObj)
    /\ UNCHANGED <<clientVars, stores, scopes, finalized>>

\* the event loop resumes a suspended chain in the frame it captured
Resume(t) ==
    /\ running = 0
    /\ chains[t].status = "suspended"
    /\ chains' = SetChain(t, [chains[t] EXCEPT !.status = "running", !.saved = 0])
    /\ running' = t
    /\ frame' = chains[t].saved
    /\ ret' = Ret("resume", EmptyObj, "return", EmptyObj)
    /\ UNCHANGED <<clientVars, stores, scopes, finalized>>

\* the running chain, in no run() call, ends: it returns or throws, and the
\* promise of the async callback it continues resolves or rejects
Finish(outcome) ==
    /\ running # 0
    /\ chains[running].prev = <<>>
    /\ chains' = SetChain(running, Chain("done", 0, <<>>, <<>>))
    /\ finalized' = finalized \cup ({Owner} \ {0})
    /\ running' = 0
    /\ frame' = 0
    /\ ret' = Ret("finish", EmptyObj, outcome, Owner)
    /\ UNCHANGED <<clientVars, stores, scopes>>

InitAmbient ==
    /\ config = EmptyObj
    /\ provider = "mock"
    /\ request = NoRequest
    /\ providerCalls = <<>>
    /\ ret = NoRet
    /\ InitContext

NextAmbient ==
    \/ Spawn
    \/ CreatePurgeContext
    \/ \E outcome \in {"return", "throw"} : CallbackReturn(outcome)
    \/ CallbackSuspend
    \/ \E tags \in SUBSET Tags : CacheTags(tags)
    \/ GetCurrentPurgeContext
    \/ Await
    \/ \E t \in 1..Len(chains) : Resume(t)
    \/ \E outcome \in {"return", "throw"} : Finish(outcome)

SpecAmbient == InitAmbient /\ [][NextAmbient]_vars

-----------------------------------------------------------------------------
(* Properties of the client *)

IsHeadersCall == ret.op = "getCacheHeaders"

\* The directives a getCacheHeaders call resolved, and the headers it built
\* from them before the provider's were merged in.
Resolved == ResolvedParams(config, ret.args)
TheProviderHeaders ==
    ProviderGetCacheHeaders(provider, [k \in {"tags"} |-> Get(ret.args, "tags")])

RECURSIVE JoinStrings(_, _)
JoinStrings(a, sep) ==
    IF a = <<>> THEN ""
    ELSE IF Len(a) = 1 THEN a[1]
    ELSE a[1] \o sep \o JoinStrings(Tail(a), sep)

EndsWith(s, suffix) ==
    /\ Len(s) >= Len(suffix)
    /\ SubSeq(s, Len(s) - Len(suffix) + 1, Len(s)) = suffix

Contains(s, sub) ==
    \E i \in 1..(Len(s) - Len(sub) + 1) : SubSeq(s, i, i + Len(sub) - 1) = sub

\* v > 0, v a directive value
Positive(v) == v.t = "number" /\ ~v.neg /\ v.digits # "0"
Negative(v) == v.t = "number" /\ v.neg
IsTrue(v) == v.t = "boolean" /\ v.b
Decimal(v) == (IF v.neg THEN "-" ELSE "") \o v.digits

\* The Cache-Control value the specification prescribes for directives d.
PrescribedCacheControl(d) ==
    JoinStrings(
        (IF Positive(Get(d, "maxAgeCDN")) /\ ~IsTrue(Get(d, "private"))
            THEN <<"s-maxage=" \o Decimal(Get(d, "maxAgeCDN"))>> ELSE <<>>)
        \o (IF Positive(Get(d, "maxAgeBrowser"))
            THEN <<"max-age=" \o Decimal(Get(d, "maxAgeBrowser"))>> ELSE <<>>)
        \o <<"must-revalidate">>
        \o <<IF IsTrue(Get(d, "private")) THEN "private" ELSE "public">>,
        ", ")

\* C2: purgeCache called with an empty tag list returns a failure outcome
\* carrying a PurgeArgumentError, and the provider's purgeCache is not invoked
\* for that call.
C2_EmptyPurgeRejected ==
    (ret.op = "purgeCache" /\ Get(ret.args, "tags").a = <<>>)
        => /\ ret.kind = "err"
           /\ ret.value.error._tag = "PurgeArgumentError"
           /\ providerCalls = <<>>

\* What the specification says of the Cache-Control value of the last
\* getCacheHeaders call.
CacheControlAsPrescribed ==
    LET cc == ret.value["Cache-Control"]
    IN  /\ cc = PrescribedCacheControl(Resolved)
        /\ EndsWith(cc, ", private") # EndsWith(cc, ", public")
        /\ EndsWith(cc, ", private") <=> IsTrue(Get(Resolved, "private"))
        /\ Contains(cc, "must-revalidate")
        /\ IsTrue(Get(Resolved, "private")) => ~Contains(cc, "s-maxage")
        /\ (Get(Resolved, "maxAgeCDN") = Zero
                /\ Get(Resolved, "maxAgeBrowser") = Zero)
            => cc = (IF IsTrue(Get(Resolved, "private"))
                        THEN "must-revalidate, private"
                        ELSE "must-revalidate, public")

\* C7: for every combination of maxAgeCDN, maxAgeBrowser and private, the
\* Cache-Control value is the ", "-join of s-maxage=<maxAgeCDN> (only if
\* maxAgeCDN > 0 and private is false), max-age=<maxAgeBrowser> (only if
\* maxAgeBrowser > 0), must-revalidate, and private or public; so it ends in
\* exactly one of private/public, contains must-revalidate, has no s-maxage
\* when private is true, and is "must-revalidate, public" when both ages are 0
\* (and private is false; "must-revalidate, private" when it is true).
C7_CacheControlValue == IsHeadersCall => CacheControlAsPrescribed

\* The same statement on the ages the data model allows (no negative age):
\* there the code and the prescribed value agree.
CacheControlValueOnNonNegativeAges ==
    (/\ IsHeadersCall
     /\ ~Negative(Get(Resolved, "maxAgeCDN"))
     /\ ~Negative(Get(Resolved, "maxAgeBrowser")))
        => CacheControlAsPrescribed

\* The library defaults as the specification states them.
StatedDefault(f) ==
    CASE f = "maxAgeCDN" -> Num(FALSE, "3153536000")
      [] f = "maxAgeBrowser" -> Num(FALSE, "0")
      [] f = "vary" -> Str("Accept-Encoding")
      [] f = "private" -> Bool(FALSE)

DirectiveFields == {"maxAgeCDN", "maxAgeBrowser", "vary", "private"}

\* Field by field: the call's value if the call has the field, else the
\* config's if the config has it, else the default.
PrescribedResolution(cfg, args) ==
    [f \in DirectiveFields |->
        IF f \in DOMAIN args THEN args[f]
        ELSE IF f \in DOMAIN cfg THEN cfg[f]
        ELSE StatedDefault(f)]

CommonKeys == {"Cache-Control", "Vary"}

\* C8: in getCacheHeaders each of maxAgeCDN, maxAgeBrowser, vary and private
\* is resolved independently: the per-call value if the call provides the
\* field (an explicit undefined included), otherwise the client-config value
\* if the config provides it, otherwise the library default; the common
\* headers returned are the ones built from that resolution, so an override
\* of vary replaces the inherited value.
C8_MergePrecedence ==
    IsHeadersCall =>
        LET want == buildCommonHeaders(PrescribedResolution(config, ret.args))
            free == CommonKeys \ DOMAIN TheProviderHeaders
        IN  /\ (DOMAIN ret.value) \cap free = (DOMAIN want) \cap free
            /\ \A k \in (DOMAIN want) \cap free : ret.value[k] = want[k]

\* The call overrides one field the config sets, inherits another from the
\* config and a third from the defaults.
C8_Witness ==
    /\ IsHeadersCall
    /\ provider = "mock"
    /\ {"maxAgeCDN", "maxAgeBrowser"} \subseteq DOMAIN config
    /\ "vary" \notin DOMAIN config
    /\ (DOMAIN ret.args) \cap DirectiveFields = {"maxAgeCDN"}
    /\ ret.value["Cache-Control"]
           = "s-maxage=7200, max-age=3600, must-revalidate, public"
    /\ ret.value["Vary"] = "Accept-Encoding"

VaryIsEmpty(v) ==
    \/ v.t = "undefined"
    \/ v.t = "string" /\ v.s = ""
    \/ v.t = "array" /\ v.a = <<>>

VaryNames(v) ==
    IF v.t = "array" THEN [i \in 1..Len(v.a) |-> v.a[i].s] ELSE <<v.s>>

\* C9: if the resolved vary is absent or empty (undefined, the empty string
\* or an empty list) the headers have no Vary key; otherwise Vary is the
\* header names joined with ", " in the caller's order, a single string
\* counting as a one-element list.
C9_VaryHeader ==
    (IsHeadersCall /\ "Vary" \notin DOMAIN TheProviderHeaders) =>
        LET v == Get(Resolved, "vary")
        IN  IF VaryIsEmpty(v)
                THEN "Vary" \notin DOMAIN ret.value
                ELSE /\ "Vary" \in DOMAIN ret.value
                     /\ ret.value["Vary"] = JoinStrings(VaryNames(v), ", ")

\* C10: getCacheHeaders calls the provider's getCacheHeaders exactly once,
\* with only the tags, and returns the union of the provider's headers and
\* the common headers: every provider entry unchanged, every common entry
\* whose key the provider did not return unchanged, the provider's value on
\* a key both have.
C10_ProviderHeadersMerged ==
    IsHeadersCall =>
        LET common == buildCommonHeaders(Resolved)
            prov == TheProviderHeaders
        IN  /\ Len(providerCalls) = 1
            /\ providerCalls[1].op = "getCacheHeaders"
            /\ DOMAIN providerCalls[1].args = {"tags"}
            /\ providerCalls[1].args["tags"] = ret.args["tags"]
            /\ DOMAIN ret.value = (DOMAIN prov) \cup (DOMAIN common)
            /\ \A k \in DOMAIN prov : ret.value[k] = prov[k]
            /\ \A k \in (DOMAIN common) \ (DOMAIN prov) : ret.value[k] = common[k]

\* The provider and the client both produce Vary; the result keeps the
\* provider's and the client's Cache-Control.
C10_Witness ==
    /\ IsHeadersCall
    /\ provider = "custom"
    /\ "Vary" \in DOMAIN buildCommonHeaders(Resolved)
    /\ buildCommonHeaders(Resolved)["Vary"] = "A, B"
    /\ ret.value["Vary"] = "Cookie"
    /\ ret.value["X-Tag"] = "tag1, tag2"
    /\ ret.value["Cache-Control"] = "s-maxage=3153536000, must-revalidate, public"

\* cc has the directive name=<value> as one of its ", "-separated parts.
HasDirective(cc, name) ==
    \/ (Len(cc) >= Len(name) + 1 /\ SubSeq(cc, 1, Len(name) + 1) = name \o "=")
    \/ Contains(cc, ", " \o name \o "=")

\* The directives d with every negative age replaced by 0.
WithNegativeAgesAsZero(d) ==
    [k \in DOMAIN d |->
        IF k \in {"maxAgeCDN", "maxAgeBrowser"} /\ Negative(d[k]) THEN Zero ELSE d[k]]

\* C11: header synthesis treats a negative maxAgeCDN or maxAgeBrowser as zero:
\* for a negative age getCacheHeaders does not fail, and the Cache-Control it
\* returns has no s-maxage (respectively max-age) directive for that field and
\* is the value it would be were the age 0.
C11_NegativeAgesTreatedAsZero ==
    (/\ IsHeadersCall
     /\ \/ Negative(Get(Resolved, "maxAgeCDN"))
        \/ Negative(Get(Resolved, "maxAgeBrowser")))
        => LET cc == ret.value["Cache-Control"]
           IN  /\ ret.kind = "return"
               /\ Negative(Get(Resolved, "maxAgeCDN")) => ~HasDirective(cc, "s-maxage")
               /\ Negative(Get(Resolved, "maxAgeBrowser")) => ~HasDirective(cc, "max-age")
               /\ cc = CacheControl(WithNegativeAgesAsZero(Resolved))

\* The part of it that holds: getCacheHeaders returns for negative ages too.
HeaderSynthesisIsTotal == IsHeadersCall => ret.kind = "return"

-----------------------------------------------------------------------------
(* Properties of the ambient tag context *)

StoreIds == 1..Len(stores)

\* The last step was this call, made by the chain that is still running.
Called(op) == ret.op = op /\ running # 0

\* The bindings a chain holds: the frame it will resume in and the frames its
\* run() calls in progress will restore.
Held(t) == {chains[t].saved} \cup {chains[t].prev[i] : i \in 1..Len(chains[t].prev)}

\* C1: for any interleaving of concurrently active scopes, suspensions at an
\* await included, every cacheTags call lands in the TagSet of the scope whose
\* unit of work made it: each TagSet holds exactly the tags its scope
\* registered, and getCurrentPurgeContext inside a scope returns that set.
C1_ScopesIsolated ==
    /\ \A s \in StoreIds : stores[s] = scopes[s].registered
    /\ (Called("getCurrentPurgeContext") /\ Owner # 0)
        => /\ ret.kind = "return"
           /\ ret.value.store = Owner
           /\ ret.value.tags = scopes[Owner].registered

\* A unit of work reads its own tags back while another scope, neither nested
\* in it nor ended, is suspended at an await holding different tags.
C1_Witness ==
    /\ Called("getCurrentPurgeContext")
    /\ ret.kind = "return"
    /\ ret.value.tags = {"a"}
    /\ \E t \in 1..Len(chains) :
        /\ chains[t].status = "suspended"
        /\ chains[t].saved \notin {0, ret.value.store}
        /\ chains[t].saved \notin finalized
        /\ stores[chains[t].saved] = {"b"}
        /\ scopes[chains[t].saved].parent = 0
        /\ scopes[ret.value.store].parent = 0

\* C3: getCurrentPurgeContext called when no scope is active fails with an
\* error whose kind tag is PurgeArgumentError, and returns no TagSet.
C3_ReadOutsideScopeIsArgumentError ==
    (Called("getCurrentPurgeContext") /\ Owner = 0)
        => /\ ret.kind = "throw"
           /\ "_tag" \in DOMAIN ret.value
           /\ ret.value["_tag"] = "PurgeArgumentError"

\* C4: cacheTags called while no scope is active does not raise and changes
\* no state; a scope created afterwards starts with an empty TagSet, and a
\* TagSet holds only tags registered inside its scope.
C4_OutOfScopeCacheTagsIsNoOp ==
    /\ [][(running # 0 /\ Owner = 0 /\ ret'.op = "cacheTags")
            => (ret'.kind = "return" /\ UNCHANGED contextVars)]_vars
    /\ [][(ret'.op = "createPurgeContext") => stores'[ret'.value] = {}]_vars
    /\ [](\A s \in StoreIds : stores[s] \subseteq scopes[s].registered)

\* Code outside every scope has just called cacheTags, while a scope that is
\* active elsewhere holds nothing and another scope can still be created.
C4_Witness ==
    /\ Called("cacheTags")
    /\ Owner = 0
    /\ ret.args = {"a", "b"}
    /\ ret.kind = "return"
    /\ stores = <<{}>>
    /\ finalized = {}

\* C5: a createPurgeContext inside an active scope gives the nested scope a
\* fresh empty TagSet and leaves the others as they are; a cacheTags call adds
\* to the innermost scope whose unit of work makes it and to no other, so to
\* the nested set from the nested unit of work (the outer set unchanged) and
\* to the outer set again once the nested unit of work has ended or has left
\* the outer one's synchronous extent; getCurrentPurgeContext reads that same
\* scope.
C5_NestedScopes ==
    /\ [][(ret'.op = "createPurgeContext")
            => /\ ret'.value \notin StoreIds
               /\ stores'[ret'.value] = {}
               /\ \A s \in StoreIds : stores'[s] = stores[s]]_vars
    /\ [][(running # 0 /\ Owner # 0 /\ ret'.op = "cacheTags")
            => stores' = [stores EXCEPT ![Owner] = @ \cup ret'.args]]_vars
    /\ []((Called("getCurrentPurgeContext") /\ Owner # 0)
            => (ret.kind = "return" /\ ret.value.store = Owner))

\* Scope 2 was nested in scope 1 and has ended holding only its own tag; the
\* outer unit of work has registered a tag since, into the outer set.
C5_Witness ==
    /\ Called("cacheTags")
    /\ chains[running].owner = <<1>>
    /\ Len(scopes) = 2
    /\ scopes[2].parent = 1
    /\ 2 \in finalized
    /\ ret.args = {"a"}
    /\ stores = <<{"a"}, {"b"}>>

\* C6: once the unit of work of a scope has completed, by returning or by
\* throwing, the binding is released: no execution context, running, suspended
\* or awaiting a restore, holds the scope's store, so no later cacheTags or
\* getCurrentPurgeContext reaches its TagSet.
C6_BindingReleased ==
    /\ \A s \in finalized :
        /\ frame # s
        /\ \A t \in 1..Len(chains) : s \notin Held(t)
    /\ (Called("getCurrentPurgeContext") /\ ret.kind = "return")
        => ret.value.store \notin finalized

\* A unit of work has just thrown after registering a tag: its scope is
\* finalized and nothing is bound.
C6_Witness ==
    /\ ret.op = "callback"
    /\ ret.kind = "throw"
    /\ ret.value \in finalized
    /\ stores[ret.value] = {"a"}
    /\ frame = 0
    /\ running # 0

=============================================================================
